---- MODULE Spec2Model ----
(***************************************************************************)
(* Model of the response-acquisition pipeline of package goff:             *)
(*                                                                         *)
(*   Client.GetFantasyContent                                              *)
(*     -> cachedContentProvider.Get   (only on the NewCachedClient chain)  *)
(*        -> xmlContentProvider.Get                                        *)
(*           -> countingHTTPApiClient.Get -> HTTPClient.Get (Transport)    *)
(*                                                                         *)
(* Every caller (goroutine) walks through the statements of these methods; *)
(* pc[p] names the source line the caller is about to execute.  Strings    *)
(* are sequences of tokens, so strings.Contains is a substring search.     *)
(***************************************************************************)
EXTENDS Integers, Sequences, FiniteSets, TLC

\* ------------------------------------------------------------------ bounds
\* Number of GetFantasyContent calls started in one behaviour.
MaxGets == 2
\* The clock (Unix seconds) runs from 0 to MaxTime.
MaxTime == 2
\* Capacity of the bounded store handed to NewLRUCache.
Capacity == 1

\* -------------------------------------------------------------- parameters
\* The goroutines that may call the client; Main is the one that calls it
\* when the calls are sequential.
Procs == {"g1", "g2"}
Main == "g1"
Urls == {<<"u">>, <<"v">>}
\* LRUCache.ClientID and LRUCache.DurationSeconds as set by NewLRUCache.
ClientID == <<"c1">>
DurationSeconds == 2

\* ------------------------------------------------------------------ errors
\* An error value is a pointer (id) with a message; nil is NoErr.
NoErr == [id |-> "nil", msg |-> <<>>]
ErrAccessDenied ==
    [id |-> "ErrAccessDenied",
     msg |-> <<"user does not have permission to access the requested resource">>]

TransientSentinel == <<"consumer_key_unknown">>
DeniedSentinel == <<"You are not allowed to view this page">>

\* strings.Contains(s, sub)
Contains(s, sub) ==
    \E i \in 0..(Len(s) - Len(sub)) : SubSeq(s, i + 1, i + Len(sub)) = sub

\* Errors the Transport may fail with.
ErrTransient == [id |-> "eT", msg |-> <<"oauth_problem=", "consumer_key_unknown">>]
ErrDenied == [id |-> "eD", msg |-> <<"<h1>", "You are not allowed to view this page", "</h1>">>]
ErrBoth ==
    [id |-> "eTD", msg |-> <<"consumer_key_unknown", ";", "You are not allowed to view this page">>]
ErrOther == [id |-> "eO", msg |-> <<"error">>]
TransportErrors == {ErrTransient, ErrDenied, ErrBoth, ErrOther}

\* Errors of ioutil.ReadAll and xml.Unmarshal.
ErrRead == [id |-> "eRead", msg |-> <<"read error">>]
ErrParse == [id |-> "eParse", msg |-> <<"XML syntax error">>]

\* --------------------------------------------------------------- responses
NoResp == "nil"
Responses == {"r1", "r2"}
\* What one HTTPClient.Get returns: (response, nil) or (nil, error).
TransportOutcomes ==
    {[resp |-> r, err |-> NoErr] : r \in Responses}
        \cup {[resp |-> NoResp, err |-> e] : e \in TransportErrors}

\* --------------------------------------------------------------- documents
\* A *FantasyContent is a pointer; 0 is nil.
NoDoc == 0
NoResult == [content |-> NoDoc, err |-> NoErr]

VARIABLES
    cached,          \* TRUE: built by NewCachedClient, FALSE: by NewClient
    now,             \* time.Now(), in Unix seconds
    requestCount,    \* countingHTTPApiClient.requestCount
    store,           \* the bounded store, most recently used entry first
    transportCalls,  \* history: HTTPClient.Get calls made so far
    nextDoc,         \* history: documents allocated so far
    started,         \* history: GetFantasyContent calls started so far
    pc,              \* per caller: the statement it is at
    url,             \* per caller: argument of GetFantasyContent
    reg,             \* per caller: value read by requestCount++
    attempts,        \* per caller: loop variable of countingHTTPApiClient.Get
    response,        \* per caller: local of countingHTTPApiClient.Get
    err,             \* per caller: local of countingHTTPApiClient.Get
    tlog,            \* per caller, history: outcomes of its Transport calls
    rc0,             \* per caller, history: requestCount when the call began
    xcalls,          \* per caller, history: xmlContentProvider.Get calls made
    xclosed,         \* per caller, history: response.Body.Close() calls made
    xlog,            \* per caller, history: what xmlContentProvider.Get did
    dres,            \* per caller: what xmlContentProvider.Get returned
    ctime,           \* per caller: currentTime of cachedContentProvider.Get
    hit,             \* per caller: ok of p.cache.Get
    setLog,          \* per caller, history: arguments of its cache.Set calls, and when
    store0,          \* per caller, history: the store when the call began
    res,             \* per caller: what GetFantasyContent returned
    aux              \* what the client is not part of: the LRUCache or the
                     \* document under direct use, the kind of run

shared == <<aux, cached, now, requestCount, store, transportCalls, nextDoc, started>>
httpVars == <<reg, attempts, response, err, tlog>>
xmlVars == <<xcalls, xclosed, xlog, dres>>
cacheVars == <<ctime, hit, setLog, store0>>
vars == <<shared, pc, url, rc0, httpVars, xmlVars, cacheVars, res>>
\* Everything but aux: the client and its callers.
clientVars ==
    <<cached, now, requestCount, store, transportCalls, nextDoc, started,
      pc, url, rc0, httpVars, xmlVars, cacheVars, res>>

\* ------------------------------------------------------------ LRUCache
\* Go's integer division truncates toward zero.
GoDiv(a, b) ==
    IF a >= 0 THEN a \div b ELSE -((-a) \div b)

\* NewLRUCache(clientID, duration, cache), the duration in milliseconds:
\* DurationSeconds is int64(duration.Seconds()).
NewLRUCache(clientID, duration) ==
    [ClientID |-> clientID,
     Duration |-> duration,
     DurationSeconds |-> GoDiv(duration, 1000)]

\* The LRUCache of the cached client.
TheCache == NewLRUCache(ClientID, 1000 * DurationSeconds)

\* The verb %d of fmt.Sprintf: a decimal numeral, one character per token.
Digit(d) == <<"0", "1", "2", "3", "4", "5", "6", "7", "8", "9">>[d + 1]
RECURSIVE FormatInt(_)
FormatInt(n) ==
    IF n < 0 THEN <<"-">> \o FormatInt(-n)
    ELSE IF n < 10 THEN <<Digit(n)>>
    ELSE FormatInt(n \div 10) \o <<Digit(n % 10)>>

\* Variant: the duration is taken in its own unit instead of in seconds.
getKeyOfDuration(l, originalKey, time) ==
    l.ClientID \o <<":">> \o originalKey \o <<":">>
        \o FormatInt(GoDiv(time, l.Duration))

\* Variant: the key does not tell the periods apart.
getKeyOfNoPeriod(l, originalKey, time) ==
    l.ClientID \o <<":">> \o originalKey \o <<":">> \o FormatInt(0)

\* LRUCache.getKey: fmt.Sprintf("%s:%s:%d", l.ClientID, originalKey, period)
getKeyOf(l, originalKey, time) ==
    LET period == GoDiv(time, l.DurationSeconds)
    IN  l.ClientID \o <<":">> \o originalKey \o <<":">> \o FormatInt(period)

getKey(originalKey, time) == getKeyOf(TheCache, originalKey, time)

\* lru.LRUCache.Get: the value under key, and the entry becomes the most
\* recently used one.
StoreHas(st, key) == \E i \in 1..Len(st) : st[i].key = key
StoreIndex(st, key) == CHOOSE i \in 1..Len(st) : st[i].key = key
StoreValue(st, key) == st[StoreIndex(st, key)].value
StoreWithout(st, key) ==
    LET keep == {i \in 1..Len(st) : st[i].key # key}
        nth(n) == CHOOSE i \in keep : Cardinality({j \in keep : j < i}) = n - 1
    IN  [n \in 1..Cardinality(keep) |-> st[nth(n)]]
StoreTouch(st, key) ==
    IF StoreHas(st, key)
    THEN <<[key |-> key, value |-> StoreValue(st, key)]>> \o StoreWithout(st, key)
    ELSE st
\* Variant: a value is as large as the number of the document it wraps.
SizeOfDocument(v) == v.content
\* LRUCacheValue.Size
Size(v) == 1
\* The cost function the store is built with: lru.NewLRUCache(capacity,
\* func(_ any) int64 { return 1 }).
Cost(v) == 1
RECURSIVE StoreSize(_)
StoreSize(st) == IF st = <<>> THEN 0 ELSE Cost(st[1].value) + StoreSize(Tail(st))
RECURSIVE StoreEvict(_)
StoreEvict(st) ==
    IF StoreSize(st) > Capacity THEN StoreEvict(SubSeq(st, 1, Len(st) - 1)) ELSE st
\* lru.LRUCache.Set: insert or replace as most recently used, then drop the
\* least recently used entries while the costs add up to more than the
\* capacity.
StoreSet(st, key, value) ==
    StoreEvict(<<[key |-> key, value |-> value]>> \o StoreWithout(st, key))

\* Variant: a copy of the document is stored, not the pointer given.
LRUCacheSetCopy(l, st, u, time, content) ==
    StoreSet(st, getKeyOf(l, u, time),
             [type |-> "LRUCacheValue", content |-> content + 100])

\* LRUCache.Set
LRUCacheSetOf(l, st, u, time, content) ==
    StoreSet(st, getKeyOf(l, u, time),
             [type |-> "LRUCacheValue", content |-> content])

LRUCacheSet(st, u, time, content) == LRUCacheSetOf(TheCache, st, u, time, content)

\* Variant: the stored value is used without the type assertion.
LRUCacheGetUnchecked(l, st, u, time) ==
    IF ~StoreHas(st, getKeyOf(l, u, time))
    THEN [content |-> NoDoc, ok |-> FALSE]
    ELSE [content |-> StoreValue(st, getKeyOf(l, u, time)).content, ok |-> TRUE]

\* LRUCache.Get: (content, ok)
LRUCacheGetOf(l, st, u, time) ==
    IF ~StoreHas(st, getKeyOf(l, u, time))
    THEN [content |-> NoDoc, ok |-> FALSE]
    ELSE LET value == StoreValue(st, getKeyOf(l, u, time))
         IN  IF value.type # "LRUCacheValue"
             THEN [content |-> NoDoc, ok |-> FALSE]
             ELSE [content |-> value.content, ok |-> TRUE]

LRUCacheGet(st, u, time) == LRUCacheGetOf(TheCache, st, u, time)

\* ------------------------------------------------------------------- Init
Idle(p) == pc[p] = "idle"
AllIdle == \A p \in Procs : Idle(p)

\* The client as NewClient or NewCachedClient returns it, no call made yet.
ClientInit ==
    /\ cached \in BOOLEAN
    /\ now = 0
    /\ requestCount = 0
    /\ store = <<>>
    /\ transportCalls = 0
    /\ nextDoc = 0
    /\ started = 0
    /\ pc = [p \in Procs |-> "idle"]
    /\ url = [p \in Procs |-> <<>>]
    /\ reg = [p \in Procs |-> 0]
    /\ attempts = [p \in Procs |-> 0]
    /\ response = [p \in Procs |-> NoResp]
    /\ err = [p \in Procs |-> NoErr]
    /\ tlog = [p \in Procs |-> <<>>]
    /\ rc0 = [p \in Procs |-> 0]
    /\ xcalls = [p \in Procs |-> 0]
    /\ xclosed = [p \in Procs |-> 0]
    /\ xlog = [p \in Procs |-> <<>>]
    /\ dres = [p \in Procs |-> NoResult]
    /\ ctime = [p \in Procs |-> 0]
    /\ hit = [p \in Procs |-> FALSE]
    /\ setLog = [p \in Procs |-> <<>>]
    /\ store0 = [p \in Procs |-> <<>>]
    /\ res = [p \in Procs |-> NoResult]

\* No LRUCache is used directly.
NoAux == [op |-> "none"]

Init ==
    /\ ClientInit
    /\ aux = NoAux

\* The same client, called by several goroutines at once.
Concurrent == [op |-> "concurrent"]
ConcInit ==
    /\ ClientInit
    /\ aux = Concurrent

\* The same client behind the cache, the calls it has returned from kept
\* as a history.
Tracking == [op |-> "history", past |-> <<>>]
HistInit ==
    /\ ClientInit
    /\ cached
    /\ aux = Tracking

\* The calls started in one behaviour: one more where the history is kept.
MaxCalls(a) == IF a.op = "history" THEN MaxGets + 1 ELSE MaxGets

\* The history with one more call, where it is kept.
Remember(a, call) ==
    IF a.op = "history" THEN [a EXCEPT !.past = Append(@, call)] ELSE a

\* The clock advances at any moment, also in the middle of a call.
Tick ==
    /\ now < MaxTime
    /\ now' = now + 1
    /\ UNCHANGED <<aux, cached, requestCount, store, transportCalls, nextDoc, started>>
    /\ UNCHANGED <<pc, url, rc0, httpVars, xmlVars, cacheVars, res>>

\* ------------------------------------------------- Client.GetFantasyContent
\* return c.Provider.Get(url): enters cachedContentProvider.Get or
\* xmlContentProvider.Get, whichever the constructor installed.
GetFantasyContent(p, u) ==
    /\ Idle(p)
    /\ started < MaxCalls(aux)
    /\ started' = started + 1
    /\ url' = [url EXCEPT ![p] = u]
    /\ rc0' = [rc0 EXCEPT ![p] = requestCount]
    /\ store0' = [store0 EXCEPT ![p] = store]
    /\ pc' = [pc EXCEPT ![p] = IF cached THEN "c490" ELSE "x507"]
    /\ UNCHANGED <<aux, cached, now, requestCount, store, transportCalls, nextDoc>>
    /\ UNCHANGED <<httpVars, xmlVars, ctime, hit, setLog, res>>

\* The caller takes the result; its frame is gone.
Finish(p) ==
    /\ pc[p] = "done"
    /\ pc' = [pc EXCEPT ![p] = "idle"]
    /\ url' = [url EXCEPT ![p] = <<>>]
    /\ rc0' = [rc0 EXCEPT ![p] = 0]
    /\ reg' = [reg EXCEPT ![p] = 0]
    /\ attempts' = [attempts EXCEPT ![p] = 0]
    /\ response' = [response EXCEPT ![p] = NoResp]
    /\ err' = [err EXCEPT ![p] = NoErr]
    /\ tlog' = [tlog EXCEPT ![p] = <<>>]
    /\ xcalls' = [xcalls EXCEPT ![p] = 0]
    /\ xclosed' = [xclosed EXCEPT ![p] = 0]
    /\ xlog' = [xlog EXCEPT ![p] = <<>>]
    /\ dres' = [dres EXCEPT ![p] = NoResult]
    /\ ctime' = [ctime EXCEPT ![p] = 0]
    /\ hit' = [hit EXCEPT ![p] = FALSE]
    /\ setLog' = [setLog EXCEPT ![p] = <<>>]
    /\ store0' = [store0 EXCEPT ![p] = <<>>]
    /\ res' = [res EXCEPT ![p] = NoResult]
    /\ aux' = Remember(aux, [url |-> url[p], time |-> ctime[p],
                              delegated |-> xcalls[p], res |-> res[p]])
    /\ UNCHANGED <<cached, now, requestCount, store, transportCalls, nextDoc, started>>

\* ------------------------------------------------ countingHTTPApiClient.Get
IsTransient(e) == Contains(e.msg, TransientSentinel)
IsDenied(e) == Contains(e.msg, DeniedSentinel)

\* Variants of the loop condition with a plausible slip each.
RetryCondOneLess(n, e) == n < 3 /\ e # NoErr /\ IsTransient(e)
RetryCondOneMore(n, e) == n < 5 /\ e # NoErr /\ IsTransient(e)
RetryCondAnyOutcome(n, e) == n < 4
RetryCondAnyError(n, e) == n < 4 /\ e # NoErr

\* The condition of the retry loop:
\*   attempts < 4 && err != nil && strings.Contains(err.Error(), "consumer_key_unknown")
RetryCond(n, e) ==
    /\ n < 4
    /\ e # NoErr
    /\ IsTransient(e)

\* Variants of the normalisation: an exact match, and every error replaced.
NormalizeErrExact(e) ==
    IF e # NoErr /\ e.msg = DeniedSentinel THEN ErrAccessDenied ELSE e
NormalizeErrAll(e) ==
    IF e # NoErr THEN ErrAccessDenied ELSE e

\* if err != nil && strings.Contains(err.Error(), "You are not allowed ...")
\*     { err = ErrAccessDenied }
NormalizeErr(e) ==
    IF e # NoErr /\ IsDenied(e) THEN ErrAccessDenied ELSE e

\* o.requestCount++ is a read followed by a write.
Incremented(n) == n + 1

ReadCount(p, at, next) ==
    /\ pc[p] = at
    /\ reg' = [reg EXCEPT ![p] = requestCount]
    /\ pc' = [pc EXCEPT ![p] = next]
    /\ UNCHANGED <<shared, url, rc0, attempts, response, err, tlog>>
    /\ UNCHANGED <<xmlVars, cacheVars, res>>

WriteCount(p, at, next) ==
    /\ pc[p] = at
    /\ requestCount' = Incremented(reg[p])
    /\ pc' = [pc EXCEPT ![p] = next]
    /\ UNCHANGED <<aux, cached, now, store, transportCalls, nextDoc, started>>
    /\ UNCHANGED <<url, rc0, httpVars, xmlVars, cacheVars, res>>

\* What the Transport in use can return on its call number made + 1:
\* anything, or, in the runs with concurrent callers, what a mockHTTPClient
\* with ErrorCount 0 or 1 returns: the transient failure on the first call
\* at most, the response otherwise; where the history is kept, a response
\* or an error that is not retried.
PlainOutcomes ==
    {[resp |-> "r1", err |-> NoErr], [resp |-> NoResp, err |-> ErrOther]}
MockOutcomes(made) ==
    {[resp |-> "r1", err |-> NoErr]}
        \cup (IF made = 0 THEN {[resp |-> NoResp, err |-> ErrTransient]} ELSE {})
OutcomesUnder(a, made) ==
    IF a = Concurrent THEN MockOutcomes(made)
    ELSE IF a.op = "history" THEN PlainOutcomes
    ELSE TransportOutcomes

\* response, err := o.client.Get(url), then the test of the loop condition.
TransportGet(p, at, n) ==
    /\ pc[p] = at
    /\ \E out \in OutcomesUnder(aux, transportCalls) :
        /\ response' = [response EXCEPT ![p] = out.resp]
        /\ err' = [err EXCEPT ![p] = out.err]
        /\ tlog' = [tlog EXCEPT ![p] = Append(@, out)]
        /\ pc' = [pc EXCEPT ![p] = IF RetryCond(n, out.err) THEN "h604r" ELSE "h608"]
    /\ attempts' = [attempts EXCEPT ![p] = n]
    /\ transportCalls' = transportCalls + 1
    /\ UNCHANGED <<aux, cached, now, requestCount, store, nextDoc, started>>
    /\ UNCHANGED <<url, rc0, reg, xmlVars, cacheVars, res>>

\* line 592
HttpIncRead(p) == ReadCount(p, "h592r", "h592w")
HttpIncWrite(p) == WriteCount(p, "h592w", "h593")
\* line 593, and `attempts := 0`
HttpFirstGet(p) == TransportGet(p, "h593", 0)
\* line 604
HttpRetryIncRead(p) == ReadCount(p, "h604r", "h604w")
\* Variant: a retry that does not count itself.
HttpRetryNoInc(p) ==
    /\ pc[p] = "h604w"
    /\ pc' = [pc EXCEPT ![p] = "h605"]
    /\ UNCHANGED <<shared, url, rc0, httpVars, xmlVars, cacheVars, res>>
HttpRetryIncWrite(p) == WriteCount(p, "h604w", "h605")
\* line 605, and `attempts++`
HttpRetryGet(p) == TransportGet(p, "h605", attempts[p] + 1)
\* Variant: the error of the first Transport call is the one returned.
HttpReturnFirstErr(p) ==
    /\ pc[p] = "h608"
    /\ err' = [err EXCEPT ![p] = NormalizeErr(tlog[p][1].err)]
    /\ pc' = [pc EXCEPT ![p] = "x509"]
    /\ UNCHANGED <<shared, url, rc0, reg, attempts, response, tlog>>
    /\ UNCHANGED <<xmlVars, cacheVars, res>>
\* lines 608-615: normalise the error and return to xmlContentProvider.Get
HttpReturn(p) ==
    /\ pc[p] = "h608"
    /\ err' = [err EXCEPT ![p] = NormalizeErr(err[p])]
    /\ pc' = [pc EXCEPT ![p] = "x509"]
    /\ UNCHANGED <<shared, url, rc0, reg, attempts, response, tlog>>
    /\ UNCHANGED <<xmlVars, cacheVars, res>>

\* --------------------------------------------------- xmlContentProvider.Get
\* Variant: an error is wrapped on its way out.
XmlReturnWrapped(p, r) ==
    LET w == IF r.err = NoErr THEN r ELSE [r EXCEPT !.err = ErrOther]
    IN  /\ dres' = [dres EXCEPT ![p] = w]
        /\ IF cached
           THEN /\ pc' = [pc EXCEPT ![p] = "c494"]
                /\ UNCHANGED res
           ELSE /\ pc' = [pc EXCEPT ![p] = "done"]
                /\ res' = [res EXCEPT ![p] = w]

\* xmlContentProvider.Get returns r: to cachedContentProvider.Get when that
\* is the caller, else to the caller of GetFantasyContent.
XmlReturn(p, r) ==
    /\ dres' = [dres EXCEPT ![p] = r]
    /\ IF cached
       THEN /\ pc' = [pc EXCEPT ![p] = "c494"]
            /\ UNCHANGED res
       ELSE /\ pc' = [pc EXCEPT ![p] = "done"]
            /\ res' = [res EXCEPT ![p] = r]

\* fixContent returns the pointer it was given.
fixContent(c) == c

\* line 507: response, err := p.client.Get(url)
XmlGet(p) ==
    /\ pc[p] = "x507"
    /\ xcalls' = [xcalls EXCEPT ![p] = @ + 1]
    /\ pc' = [pc EXCEPT ![p] = "h592r"]
    /\ UNCHANGED <<shared, url, rc0, httpVars, xclosed, xlog, dres, cacheVars, res>>

\* Variant: the error of the client is not looked at.
XmlCheckErrIgnored(p) ==
    /\ pc[p] = "x509"
    /\ pc' = [pc EXCEPT ![p] = "x514"]
    /\ UNCHANGED <<shared, url, rc0, httpVars, xmlVars, cacheVars, res>>

\* lines 509-512: if err != nil { return nil, err }; defer response.Body.Close()
XmlCheckErr(p) ==
    /\ pc[p] = "x509"
    /\ IF err[p] # NoErr
       THEN XmlReturn(p, [content |-> NoDoc, err |-> err[p]])
       ELSE /\ pc' = [pc EXCEPT ![p] = "x514"]
            /\ UNCHANGED <<dres, res>>
    /\ UNCHANGED <<shared, url, rc0, httpVars, xcalls, xclosed, xlog, cacheVars>>

\* Variant: a failed read returns without closing the body.
XmlReadFailsNoClose(p) ==
    /\ pc[p] = "x514"
    /\ XmlReturn(p, [content |-> NoDoc, err |-> ErrRead])
    /\ xlog' = [xlog EXCEPT ![p] = Append(@, "read")]
    /\ UNCHANGED <<shared, url, rc0, httpVars, xcalls, xclosed, cacheVars>>

\* lines 514-517: bits, err := ioutil.ReadAll(response.Body)
XmlReadFails(p) ==
    /\ pc[p] = "x514"
    /\ XmlReturn(p, [content |-> NoDoc, err |-> ErrRead])
    /\ xclosed' = [xclosed EXCEPT ![p] = @ + 1]
    /\ xlog' = [xlog EXCEPT ![p] = @ \o <<"read", "close">>]
    /\ UNCHANGED <<shared, url, rc0, httpVars, xcalls, cacheVars>>

XmlRead(p) ==
    /\ pc[p] = "x514"
    /\ pc' = [pc EXCEPT ![p] = "x520"]
    /\ xlog' = [xlog EXCEPT ![p] = Append(@, "read")]
    /\ UNCHANGED <<shared, url, rc0, httpVars, xcalls, xclosed, dres, cacheVars, res>>

\* Variant: a failed parse returns what was decoded so far with the error.
XmlParseFailsPartial(p) ==
    /\ pc[p] = "x520"
    /\ XmlReturn(p, [content |-> nextDoc + 1, err |-> ErrParse])
    /\ xclosed' = [xclosed EXCEPT ![p] = @ + 1]
    /\ xlog' = [xlog EXCEPT ![p] = @ \o <<"parse", "close">>]
    /\ UNCHANGED <<shared, url, rc0, httpVars, xcalls, cacheVars>>

\* lines 519-523: err = xml.Unmarshal(bits, &content)
XmlParseFails(p) ==
    /\ pc[p] = "x520"
    /\ XmlReturn(p, [content |-> NoDoc, err |-> ErrParse])
    /\ xclosed' = [xclosed EXCEPT ![p] = @ + 1]
    /\ xlog' = [xlog EXCEPT ![p] = @ \o <<"parse", "close">>]
    /\ UNCHANGED <<shared, url, rc0, httpVars, xcalls, cacheVars>>

\* Variant: decoding counts as a request.
XmlParseCounted(p) ==
    /\ pc[p] = "x520"
    /\ nextDoc' = nextDoc + 1
    /\ requestCount' = requestCount + 1
    /\ XmlReturn(p, [content |-> fixContent(nextDoc + 1), err |-> NoErr])
    /\ xclosed' = [xclosed EXCEPT ![p] = @ + 1]
    /\ xlog' = [xlog EXCEPT ![p] = @ \o <<"parse", "fix", "close">>]
    /\ UNCHANGED <<aux, cached, now, store, transportCalls, started>>
    /\ UNCHANGED <<url, rc0, httpVars, xcalls, cacheVars>>

\* line 525: return fixContent(&content), nil
XmlParse(p) ==
    /\ pc[p] = "x520"
    /\ nextDoc' = nextDoc + 1
    /\ XmlReturn(p, [content |-> fixContent(nextDoc + 1), err |-> NoErr])
    /\ xclosed' = [xclosed EXCEPT ![p] = @ + 1]
    /\ xlog' = [xlog EXCEPT ![p] = @ \o <<"parse", "fix", "close">>]
    /\ UNCHANGED <<aux, cached, now, requestCount, store, transportCalls, started>>
    /\ UNCHANGED <<url, rc0, httpVars, xcalls, cacheVars>>

\* line 525, when fixContent indexes Teams[0] or Teams[1] of a matchup that
\* was decoded with fewer teams: the run-time panic unwinds the call, the
\* deferred Close runs, nothing is returned and, no caller recovering, the
\* program ends.
XmlParsePanics(p) ==
    /\ pc[p] = "x520"
    /\ nextDoc' = nextDoc + 1
    /\ pc' = [pc EXCEPT ![p] = "panic"]
    /\ xclosed' = [xclosed EXCEPT ![p] = @ + 1]
    /\ xlog' = [xlog EXCEPT ![p] = @ \o <<"parse", "fix", "close">>]
    /\ UNCHANGED <<aux, cached, now, requestCount, store, transportCalls, started>>
    /\ UNCHANGED <<url, rc0, httpVars, xcalls, dres, cacheVars, res>>

\* ------------------------------------------------ cachedContentProvider.Get
\* Variants: the delegate is called on a hit too; the result is stored
\* whatever the error; the entry is stored under the time of the Set.
AfterLookupAlwaysDelegate(ok) == "x507"
ShouldSetAlways(e) == TRUE
\* Variant: the result of the delegate is never stored.
ShouldSetNever(e) == FALSE
\* Variant: the test of the error is inverted.
ShouldSetOnError(e) == e # NoErr
SetTimeNow(p) == now

\* line 492: `if !ok` enters the delegate, else line 499 returns the content.
AfterLookup(ok) == IF ok THEN "done" ELSE "x507"

\* line 494: `if err == nil` guards p.cache.Set
ShouldSet(e) == e = NoErr

\* line 495: the time handed to p.cache.Set is currentTime
SetTime(p) == ctime[p]

\* lines 490-492, 499: currentTime := time.Now(); content, ok := p.cache.Get(...)
CachedGet(p) ==
    /\ pc[p] = "c490"
    /\ LET r == LRUCacheGet(store, url[p], now)
       IN  /\ ctime' = [ctime EXCEPT ![p] = now]
           /\ hit' = [hit EXCEPT ![p] = r.ok]
           /\ store' = StoreTouch(store, getKey(url[p], now))
           /\ pc' = [pc EXCEPT ![p] = AfterLookup(r.ok)]
           /\ res' = [res EXCEPT ![p] =
                        IF AfterLookup(r.ok) = "done"
                        THEN [content |-> r.content, err |-> NoErr]
                        ELSE @]
    /\ UNCHANGED <<aux, cached, now, requestCount, transportCalls, nextDoc, started>>
    /\ UNCHANGED <<url, rc0, httpVars, xmlVars, setLog, store0>>

\* lines 493-497: the delegate has returned (content, err)
CachedAfterDelegate(p) ==
    /\ pc[p] = "c494"
    /\ IF ShouldSet(dres[p].err)
       THEN /\ store' = LRUCacheSet(store, url[p], SetTime(p), dres[p].content)
            /\ setLog' = [setLog EXCEPT ![p] =
                            Append(@, [url |-> url[p], time |-> SetTime(p),
                                       content |-> dres[p].content, at |-> now])]
       ELSE UNCHANGED <<store, setLog>>
    /\ res' = [res EXCEPT ![p] = dres[p]]
    /\ pc' = [pc EXCEPT ![p] = "done"]
    /\ UNCHANGED <<aux, cached, now, requestCount, transportCalls, nextDoc, started>>
    /\ UNCHANGED <<url, rc0, httpVars, xmlVars, ctime, hit, store0>>

\* ------------------------------------------------------------ specification
\* An unrecovered panic has ended the program: no goroutine runs any more.
Ended == \E q \in Procs : pc[q] = "panic"

Step(p) ==
    /\ ~Ended
    /\ \/ CachedGet(p)
       \/ CachedAfterDelegate(p)
       \/ XmlGet(p)
       \/ XmlCheckErr(p)
       \/ XmlReadFails(p)
       \/ XmlRead(p)
       \/ XmlParseFails(p)
       \/ XmlParse(p)
       \/ XmlParsePanics(p)
       \/ HttpIncRead(p)
       \/ HttpIncWrite(p)
       \/ HttpFirstGet(p)
       \/ HttpRetryIncRead(p)
       \/ HttpRetryIncWrite(p)
       \/ HttpRetryGet(p)
       \/ HttpReturn(p)
       \/ Finish(p)

\* Sequential use: one goroutine calls, and starts a call only when its
\* previous call has returned.
SequentialCall ==
    /\ AllIdle
    /\ \E u \in Urls : GetFantasyContent(Main, u)

Next ==
    \/ Tick
    \/ SequentialCall
    \/ \E p \in Procs : Step(p)

Spec == Init /\ [][Next]_vars

\* Sequential use of the cached client, the history kept.
HistSpec == HistInit /\ [][Next]_vars

\* Concurrent use: every goroutine calls whenever it is idle, all of them
\* for the same URL.
ConcUrl == <<"u">>
ConcurrentCall(p) ==
    /\ ~Ended
    /\ GetFantasyContent(p, ConcUrl)

ConcNext ==
    \/ Tick
    \/ \E p \in Procs : ConcurrentCall(p)
    \/ \E p \in Procs : Step(p)

ConcSpec == ConcInit /\ [][ConcNext]_vars

\* ------------------------------------------------------- LRUCache.getKey
\* getKey applied to the caches, keys and times below; the keys of the last
\* second of a window counted from `time` (time + W - 1) and of the second
\* after it (time + W) are computed with it.
KeyCaches ==
    {NewLRUCache(<<"c1">>, 3600000),
     NewLRUCache(<<"a">>, 2000),
     NewLRUCache(<<"a", ":", "b">>, 3000)}
KeyUrls == {<<"u">>, <<"c">>, <<"b", ":", "c">>}
KeyTimes == (-4..8) \cup {1408281677}

ComputeKey(l, u, t) ==
    /\ aux' = [op |-> "key", cache |-> l, url |-> u, time |-> t,
               key |-> getKeyOf(l, u, t),
               keyEnd |-> getKeyOf(l, u, t + l.DurationSeconds - 1),
               keyNext |-> getKeyOf(l, u, t + l.DurationSeconds)]
    /\ UNCHANGED clientVars

KeyNext ==
    \E l \in KeyCaches : \E u \in KeyUrls : \E t \in KeyTimes : ComputeKey(l, u, t)

KeySpec == Init /\ [][KeyNext]_vars

\* ---------------------------------------------- LRUCache used directly
\* Two LRUCache instances with different client IDs over one bounded store,
\* used through Set and Get; the store can also be written underneath them,
\* as TestGetContentOfWrongType does with a mockedValue.
DirectCaches == {NewLRUCache(<<"a">>, 2000), NewLRUCache(<<"a", ":", "b">>, 2000)}
DirectUrls == {<<"c">>, <<"b", ":", "c">>}
DirectTimes == 0..3
\* The document each instance's client holds (a pointer).
DocOf(l) == IF l.ClientID = <<"a">> THEN 11 ELSE 21
mockedValue == [type |-> "mockedValue", content |-> NoDoc]
NoCall == [cache |-> <<>>]

DirectInit ==
    /\ ClientInit
    /\ aux = [op |-> "new", st |-> <<>>, lastSet |-> NoCall, intact |-> FALSE,
              get |-> NoCall]

\* l.Set(u, t, content)
DirectSet(l, u, t) ==
    /\ aux' = [op |-> "set",
               st |-> LRUCacheSetOf(l, aux.st, u, t, DocOf(l)),
               lastSet |-> [cache |-> l, url |-> u, time |-> t, content |-> DocOf(l)],
               intact |-> TRUE,
               get |-> NoCall]
    /\ UNCHANGED clientVars

\* l.Get(u, t)
DirectGet(l, u, t) ==
    /\ LET r == LRUCacheGetOf(l, aux.st, u, t)
       IN  aux' = [aux EXCEPT
                     !.op = "get",
                     !.st = StoreTouch(aux.st, getKeyOf(l, u, t)),
                     !.get = [cache |-> l, url |-> u, time |-> t,
                              content |-> r.content, ok |-> r.ok,
                              before |-> aux.st]]
    /\ UNCHANGED clientVars

\* lruCache.Set(l.getKey(u, t), mockedValue{}): may overwrite or evict.
DirectPut(l, u, t) ==
    /\ aux' = [aux EXCEPT
                 !.op = "put",
                 !.st = StoreSet(aux.st, getKeyOf(l, u, t), mockedValue),
                 !.intact = FALSE,
                 !.get = NoCall]
    /\ UNCHANGED clientVars

DirectNext ==
    \E l \in DirectCaches : \E u \in DirectUrls : \E t \in DirectTimes :
        \/ DirectSet(l, u, t)
        \/ DirectGet(l, u, t)
        \/ DirectPut(l, u, t)

DirectSpec == DirectInit /\ [][DirectNext]_vars

\* ------------------------------------------- NewLRUCache by its duration
\* Caches made by NewLRUCache with durations from one millisecond to an
\* hour, used through Set and Get.
Durations == {1, 500, 999, 1000, 1999, 2000, 3600000}

\* line 474: the division panics (integer divide by zero) when
\* DurationSeconds is 0.
getKeyPanics(l) == l.DurationSeconds = 0

\* l.Set(u, t, content) or l.Get(u, t), as far as l.getKey(u, t), with
\* l = NewLRUCache(ClientID, duration, cache)
KeyedCall(call, duration, u, t) ==
    /\ aux' = [op |-> "keyed", call |-> call,
               cache |-> NewLRUCache(ClientID, duration),
               url |-> u, time |-> t,
               panic |-> getKeyPanics(NewLRUCache(ClientID, duration)),
               key |-> IF getKeyPanics(NewLRUCache(ClientID, duration))
                       THEN <<>>
                       ELSE getKeyOf(NewLRUCache(ClientID, duration), u, t)]
    /\ UNCHANGED clientVars

DurationNext ==
    \E duration \in Durations : \E u \in KeyUrls : \E t \in DirectTimes :
        \/ KeyedCall("Set", duration, u, t)
        \/ KeyedCall("Get", duration, u, t)

DurationSpec == Init /\ [][DurationNext]_vars

\* --------------------------------------------------------------- fixContent
\* The content of a document: the fields fixContent reads or writes, one raw
\* field beside them (Name, CoverageType, Week), every slice it ranges over.
\* A float64 is the pair <<n, k>> standing for n / 10^k, with no trailing
\* zero in n when k > 0; strings are sequences of characters.
Zero == <<0, 0>>
DigitChars == {Digit(d) : d \in 0..9}
DigitVal(c) == CHOOSE d \in 0..9 : Digit(d) = c
AllDigits(s) == \A i \in 1..Len(s) : s[i] \in DigitChars
RECURSIVE DigitsValue(_)
DigitsValue(s) ==
    IF s = <<>> THEN 0
    ELSE 10 * DigitsValue(SubSeq(s, 1, Len(s) - 1)) + DigitVal(s[Len(s)])
Signed(s) == Len(s) > 0 /\ s[1] \in {"+", "-"}
Unsigned(s) == IF Signed(s) THEN Tail(s) ELSE s
Sign(s) == IF Len(s) > 0 /\ s[1] = "-" THEN -1 ELSE 1

\* strconv.ParseInt(s, 10, 64), for values within the int64 range
ParseDigits(sign, digits) ==
    IF digits = <<>> \/ ~AllDigits(digits)
    THEN [ok |-> FALSE, val |-> 0]
    ELSE [ok |-> TRUE, val |-> sign * DigitsValue(digits)]
ParseInt(s) == ParseDigits(Sign(s), Unsigned(s))

RECURSIVE Normalize(_, _)
Normalize(n, k) ==
    IF k > 0 /\ n % 10 = 0 THEN Normalize(n \div 10, k - 1) ELSE <<n, k>>

\* strconv.ParseFloat(s, 64), for decimal strings without exponent: an
\* optional sign, digits with at most one point, one digit at least.
ParseDecimal(sign, digits, places) ==
    IF digits = <<>> \/ ~AllDigits(digits)
    THEN [ok |-> FALSE, val |-> Zero]
    ELSE [ok |-> TRUE, val |-> Normalize(sign * DigitsValue(digits), places)]
ParsePointAt(sign, body, dot) ==
    ParseDecimal(sign, SubSeq(body, 1, dot - 1) \o SubSeq(body, dot + 1, Len(body)),
                 Len(body) - dot)
ParsePoints(sign, body, dots) ==
    IF Cardinality(dots) > 1 THEN [ok |-> FALSE, val |-> Zero]
    ELSE IF dots = {} THEN ParseDecimal(sign, body, 0)
    ELSE ParsePointAt(sign, body, CHOOSE i \in dots : TRUE)
PointsIn(body) == {i \in 1..Len(body) : body[i] = "."}
ParseFloat(s) == ParsePoints(Sign(s), Unsigned(s), PointsIn(Unsigned(s)))

\* if err == nil { p.Total = total }
SetTotal(p, r) == IF r.ok THEN [p EXCEPT !.Total = r.val] ELSE p

\* Variants: the total is never derived; the raw text is cleared once read.
fixPointsSkip(p) == p
fixPointsConsume(p) ==
    IF p.TotalStr # <<>>
    THEN [SetTotal(p, ParseFloat(p.TotalStr)) EXCEPT !.TotalStr = <<>>]
    ELSE p

fixPoints(p) ==
    IF p.TotalStr # <<>> THEN SetTotal(p, ParseFloat(p.TotalStr)) ELSE p

\* if err == nil { t.Rank = int(rank) }; on the builds where int has 64 bits
\* int(rank) keeps the value.
SetRank(t, r) == IF r.ok THEN [t EXCEPT !.Rank = r.val] ELSE t
AddRank(t, r) == IF r.ok THEN [t EXCEPT !.Rank = @ + r.val] ELSE t

\* Variant: the parsed rank is added to the rank held.
fixRankAccumulate(t) ==
    IF t.RankStr # <<>> THEN AddRank(t, ParseInt(t.RankStr)) ELSE t

fixRank(t) ==
    IF t.RankStr # <<>> THEN SetRank(t, ParseInt(t.RankStr)) ELSE t

fixPlayers(ps) == [i \in 1..Len(ps) |-> [ps[i] EXCEPT !.PlayerPoints = fixPoints(@)]]

\* fixTeam and the loops over matchups and teams return [ok, v]: v is the
\* memory as they leave it, ok is FALSE when Teams[0] or Teams[1] was indexed
\* in a shorter slice (a run-time panic, which ends the traversal there).
RECURSIVE fixTeam(_)
RECURSIVE fixMatchupsFrom(_, _)
RECURSIVE fixTeamsFrom(_, _)

\* fixTeam(&m.Teams[0]); fixTeam(&m.Teams[1])
MatchupAfterSecond(m, r0, r1) ==
    [ok |-> r1.ok, v |-> [m EXCEPT !.Teams[1] = r0.v, !.Teams[2] = r1.v]]
MatchupAfterFirst(m, r0) ==
    IF ~r0.ok \/ Len(m.Teams) < 2
    THEN [ok |-> FALSE, v |-> [m EXCEPT !.Teams[1] = r0.v]]
    ELSE MatchupAfterSecond(m, r0, fixTeam(m.Teams[2]))
fixMatchup(m) ==
    IF Len(m.Teams) < 1 THEN [ok |-> FALSE, v |-> m]
    ELSE MatchupAfterFirst(m, fixTeam(m.Teams[1]))

\* for i := range matchups { ... }, from index i on
MatchupsAfter(ms, i, r) ==
    IF r.ok THEN fixMatchupsFrom([ms EXCEPT ![i] = r.v], i + 1)
    ELSE [ok |-> FALSE, v |-> [ms EXCEPT ![i] = r.v]]
fixMatchupsFrom(ms, i) ==
    IF i > Len(ms) THEN [ok |-> TRUE, v |-> ms]
    ELSE MatchupsAfter(ms, i, fixMatchup(ms[i]))

\* for i := range teams { fixTeam(&teams[i]) }, from index i on
TeamsAfter(ts, i, r) ==
    IF r.ok THEN fixTeamsFrom([ts EXCEPT ![i] = r.v], i + 1)
    ELSE [ok |-> FALSE, v |-> [ts EXCEPT ![i] = r.v]]
fixTeamsFrom(ts, i) ==
    IF i > Len(ts) THEN [ok |-> TRUE, v |-> ts]
    ELSE TeamsAfter(ts, i, fixTeam(ts[i]))

\* lines 549-556, lines 557-560 and line 561 of fixTeam
TeamPointsFixed(t) ==
    [t EXCEPT !.TeamPoints = fixPoints(@),
              !.TeamProjectedPoints = fixPoints(@),
              !.Roster.Players = fixPlayers(@),
              !.Players = fixPlayers(@)]
TeamAfterMatchups(t, rm) ==
    IF rm.ok
    THEN [ok |-> TRUE, v |-> [t EXCEPT !.Matchups = rm.v, !.TeamStandings = fixRank(@)]]
    ELSE [ok |-> FALSE, v |-> [t EXCEPT !.Matchups = rm.v]]
TeamMatchupsFixed(t) == TeamAfterMatchups(t, fixMatchupsFrom(t.Matchups, 1))
fixTeam(t) == TeamMatchupsFixed(TeamPointsFixed(t))

\* fixContent on the content of the document, [ok, v] as above: line 531,
\* the loops of lines 532-534, 535-537, 538-540 and 541-544 in turn.
ContentAfterMatchups(c, r) ==
    [ok |-> r.ok, v |-> [c EXCEPT !.League.Scoreboard.Matchups = r.v]]
ContentPlayersFixed(c) ==
    ContentAfterMatchups(c, fixMatchupsFrom(c.League.Scoreboard.Matchups, 1))
ContentAfterStandings(c, r) ==
    IF r.ok
    THEN ContentPlayersFixed([c EXCEPT !.League.Standings = r.v,
                                       !.League.Players = fixPlayers(@)])
    ELSE [ok |-> FALSE, v |-> [c EXCEPT !.League.Standings = r.v]]
ContentAfterTeams(c, r) ==
    IF r.ok
    THEN ContentAfterStandings([c EXCEPT !.League.Teams = r.v],
                               fixTeamsFrom(c.League.Standings, 1))
    ELSE [ok |-> FALSE, v |-> [c EXCEPT !.League.Teams = r.v]]
ContentAfterTeam(c, r) ==
    IF r.ok
    THEN ContentAfterTeams([c EXCEPT !.Team = r.v], fixTeamsFrom(c.League.Teams, 1))
    ELSE [ok |-> FALSE, v |-> [c EXCEPT !.Team = r.v]]
fixContentOf(c) == ContentAfterTeam(c, fixTeam(c.Team))

\* The documents repaired: every Points holds the total text ts, every
\* TeamStandings the rank text rs; derived fields are zero as xml.Unmarshal
\* leaves them, or hold earlier values when held is TRUE; the matchup of the
\* league scoreboard has n teams, the innermost matchup of the top-level
\* team has m teams.
TotalStrs ==
    {<<>>, <<"8">>, <<"1", "2", ".", "5", "0">>, <<"-", "0", ".", "5">>,
     <<"n", "/", "a">>, <<"1", ".", "2", ".">>}
RankStrs == {<<>>, <<"7">>, <<"1", "2">>, <<"-", "3">>, <<"x">>, <<"7", "t", "h">>}
TeamCounts == 0..3

MakePoints(ts, held) ==
    [CoverageType |-> "week", TotalStr |-> ts,
     Total |-> IF held THEN <<9, 0>> ELSE Zero]
MakePlayer(ts, held) == [PlayerKey |-> "p", PlayerPoints |-> MakePoints(ts, held)]
MakeStandings(rs, held) == [RankStr |-> rs, Rank |-> IF held THEN 9 ELSE 0]
MakeTeam(name, ts, rs, held, matchups) ==
    [Name |-> name,
     TeamPoints |-> MakePoints(ts, held),
     TeamProjectedPoints |-> MakePoints(ts, held),
     Roster |-> [Week |-> 1, Players |-> <<MakePlayer(ts, held)>>],
     Players |-> <<MakePlayer(ts, held)>>,
     Matchups |-> matchups,
     TeamStandings |-> MakeStandings(rs, held)]
MakeLeaf(ts, rs, held) == MakeTeam("leaf", ts, rs, held, <<>>)
MakeMatchup(week, teams) == [Week |-> week, Teams |-> teams]
\* A team whose own matchup has k teams.
MakeMid(ts, rs, held, k) ==
    MakeTeam("mid", ts, rs, held,
             <<MakeMatchup(1, [i \in 1..k |-> MakeLeaf(ts, rs, held)])>>)
MakeContent(ts, rs, held, n, m) ==
    [Team |-> MakeTeam("top", ts, rs, held,
                       <<MakeMatchup(1, <<MakeMid(ts, rs, held, 2),
                                          MakeMid(ts, rs, held, m)>>)>>),
     League |->
        [LeagueKey |-> "l",
         Teams |-> <<MakeLeaf(ts, rs, held)>>,
         Standings |-> <<MakeLeaf(ts, rs, held)>>,
         Players |-> <<MakePlayer(ts, held)>>,
         Scoreboard |->
            [Weeks |-> "1",
             Matchups |-> <<MakeMatchup(1, [i \in 1..n |-> MakeLeaf(ts, rs, held)])>>]]]

FixInit ==
    /\ ClientInit
    /\ \E ts \in TotalStrs : \E rs \in RankStrs : \E held \in BOOLEAN :
       \E n \in TeamCounts : \E m \in TeamCounts :
           aux = [op |-> "content", held |-> held, n |-> n, m |-> m,
                  c0 |-> MakeContent(ts, rs, held, n, m)]

\* fixContent(&content)
FixOnce ==
    /\ aux.op = "content"
    /\ aux' = [op |-> "fixed", held |-> aux.held, n |-> aux.n, m |-> aux.m,
               c0 |-> aux.c0, r1 |-> fixContentOf(aux.c0)]
    /\ UNCHANGED clientVars

\* fixContent of what fixContent returned
FixAgain ==
    /\ aux.op = "fixed"
    /\ aux.r1.ok
    /\ aux' = [op |-> "refixed", held |-> aux.held, n |-> aux.n, m |-> aux.m,
               c0 |-> aux.c0, r1 |-> aux.r1, r2 |-> fixContentOf(aux.r1.v)]
    /\ UNCHANGED clientVars

FixNext == FixOnce \/ FixAgain

FixSpec == FixInit /\ [][FixNext]_vars

\* ------------------------------------------- Client.GetMatchupsForWeekRange
YahooBaseURL == "https://fantasysports.yahooapis.com/fantasy/v2"
LeagueKey == "223.l.431"
Weeks == 1..3
\* What the provider answers: an error, or a document whose scoreboard holds
\* up to three matchups, each of some week (not always a week asked for) and
\* told apart by its team.
ResponseWeeks == {1, 2, 4}
TeamNames == <<"a", "b", "c">>
Scoreboards ==
    UNION {[1..k -> ResponseWeeks] : k \in 0..Len(TeamNames)}
MatchupsOf(weeks) ==
    [i \in 1..Len(weeks) |-> [Week |-> weeks[i], Teams |-> <<TeamNames[i]>>]]
ProviderAnswers ==
    {[matchups |-> MatchupsOf(w), err |-> NoErr] : w \in Scoreboards}
        \cup {[matchups |-> <<>>, err |-> e] : e \in {ErrAccessDenied, ErrParse}}

\* strconv.Itoa
Itoa(n) == FormatInt(n)

\* lines 770-773: leagueList, from week i on
RECURSIVE LeagueList(_, _, _)
LeagueList(list, i, endWeek) ==
    IF i <= endWeek
    THEN LeagueList(list \o <<",">> \o Itoa(i), i + 1, endWeek)
    ELSE list

\* lines 774-778: the url handed to GetFantasyContent
ScoreboardUrl(leagueKey, startWeek, endWeek) ==
    <<YahooBaseURL, "/league/", leagueKey, "/scoreboard;week=">>
        \o LeagueList(Itoa(startWeek), startWeek + 1, endWeek)

\* Variant: a matchup replaces the list of its week.
GroupReplace(all, matchup) ==
    [w \in DOMAIN all \cup {matchup.Week} |->
        IF w = matchup.Week THEN <<matchup>> ELSE all[w]]

\* lines 785-790: all[week] = append(list, matchup)
GroupAppend(all, matchup) ==
    LET week == matchup.Week
        list == IF week \in DOMAIN all THEN all[week] ELSE <<>>
    IN  [w \in DOMAIN all \cup {week} |->
            IF w = week THEN Append(list, matchup) ELSE all[w]]

\* lines 783-791: the loop over the matchups, from index i on
RECURSIVE GroupFrom(_, _, _)
GroupFrom(all, matchups, i) ==
    IF i > Len(matchups) THEN all
    ELSE GroupFrom(GroupAppend(all, matchups[i]), matchups, i + 1)

EmptyMap == [w \in {} |-> <<>>]
\* A map[int][]Matchup: nil, or made.
NilMap == [nil |-> TRUE, m |-> EmptyMap]
MadeMap(m) == [nil |-> FALSE, m |-> m]

WeeksInit ==
    /\ ClientInit
    /\ aux = [op |-> "client"]

\* GetMatchupsForWeekRange(LeagueKey, startWeek, endWeek), the provider
\* answering with `answer`
GetMatchupsForWeekRange(startWeek, endWeek, answer) ==
    /\ aux' = [op |-> "weeks", startWeek |-> startWeek, endWeek |-> endWeek,
               requests |-> <<ScoreboardUrl(LeagueKey, startWeek, endWeek)>>,
               answer |-> answer,
               all |-> IF answer.err # NoErr THEN NilMap
                       ELSE MadeMap(GroupFrom(EmptyMap, answer.matchups, 1)),
               err |-> answer.err]
    /\ UNCHANGED clientVars

WeeksNext ==
    \E startWeek \in Weeks : \E endWeek \in Weeks : \E answer \in ProviderAnswers :
        GetMatchupsForWeekRange(startWeek, endWeek, answer)

WeeksSpec == WeeksInit /\ [][WeeksNext]_vars

\* ------------------------------------------------------ Client.GetUserLeagues
NflGameKey == "nfl"
\* var YearKeys = map[string]string{...}
YearKeyPairs ==
    {<<"nfl", NflGameKey>>,
     <<"2022", "414">>, <<"2021", "406">>, <<"2020", "399">>, <<"2019", "390">>,
     <<"2018", "380">>, <<"2017", "371">>, <<"2016", "359">>, <<"2015", "348">>,
     <<"2014", "331">>, <<"2013", "314">>, <<"2012", "273">>, <<"2011", "257">>,
     <<"2010", "242">>, <<"2009", "222">>, <<"2008", "199">>, <<"2007", "175">>,
     <<"2006", "153">>, <<"2005", "124">>, <<"2004", "101">>, <<"2003", "79">>,
     <<"2002", "49">>, <<"2001", "57">>}
YearKeys ==
    [y \in {p[1] : p \in YearKeyPairs} |->
        (CHOOSE p \in YearKeyPairs : p[1] = y)[2]]
\* The years asked for: some are keys of YearKeys, some are not.
Years == {"nfl", "2013", "2010", "1900", "2023", ""}

\* A []League: nil, or a slice.
NilLeagues == [nil |-> TRUE, s |-> <<>>]
MadeLeagues(s) == [nil |-> FALSE, s |-> s]
LeagueKeys == <<"l1", "l2">>
LeagueLists ==
    {NilLeagues}
        \cup {MadeLeagues([i \in 1..k |-> [LeagueKey |-> LeagueKeys[i]]]) :
                k \in 0..Len(LeagueKeys)}
\* Game.Leagues, User.Games and FantasyContent.Users of a response.
GamesOf(leagues) == [i \in 1..Len(leagues) |-> [Leagues |-> leagues[i]]]
GameLists(n) == {GamesOf(l) : l \in UNION {[1..k -> LeagueLists] : k \in 0..n}}
UsersOf(games) == [i \in 1..Len(games) |-> [Games |-> games[i]]]
\* No user, one user with up to two games, or a second user with up to one.
UserLists ==
    {<<>>}
        \cup {UsersOf(<<g>>) : g \in GameLists(2)}
        \cup {UsersOf(<<g, h>>) : g \in GameLists(2), h \in GameLists(1)}
\* What the provider answers: an error, or a document with its users.
UsersAnswers ==
    {[users |-> u, err |-> NoErr] : u \in UserLists}
        \cup {[users |-> <<>>, err |-> e] : e \in {ErrAccessDenied, ErrParse}}

\* fmt.Errorf("data not available for year=%s", year)
ErrYear(year) == [id |-> "eYear", msg |-> <<"data not available for year=", year>>]
\* errors.New("no users returned for current user")
ErrNoUsers == [id |-> "eNoUsers", msg |-> <<"no users returned for current user">>]

\* lines 642-645: the url handed to GetFantasyContent
UserLeaguesUrl(yearKey) ==
    <<YahooBaseURL, "/users;use_login=1/games;game_keys=", yearKey, "/leagues">>

\* Variant: the leagues of the user's last game are returned.
UserLeaguesOfLastGame(answer) ==
    IF answer.err # NoErr THEN [leagues |-> NilLeagues, err |-> answer.err]
    ELSE IF Len(answer.users) = 0
    THEN [leagues |-> NilLeagues, err |-> ErrNoUsers]
    ELSE IF Len(answer.users[1].Games) = 0
            \/ answer.users[1].Games[Len(answer.users[1].Games)].Leagues.nil
    THEN [leagues |-> MadeLeagues(<<>>), err |-> NoErr]
    ELSE [leagues |-> answer.users[1].Games[Len(answer.users[1].Games)].Leagues,
          err |-> NoErr]

\* lines 647-662: what GetUserLeagues returns once the provider has answered
UserLeaguesOf(answer) ==
    IF answer.err # NoErr THEN [leagues |-> NilLeagues, err |-> answer.err]
    ELSE IF Len(answer.users) = 0
    THEN [leagues |-> NilLeagues, err |-> ErrNoUsers]
    ELSE IF Len(answer.users[1].Games) = 0
            \/ answer.users[1].Games[1].Leagues.nil
    THEN [leagues |-> MadeLeagues(<<>>), err |-> NoErr]
    ELSE [leagues |-> answer.users[1].Games[1].Leagues, err |-> NoErr]

\* A client whose provider counts its Get calls and keeps the last url.
LeaguesInit ==
    /\ ClientInit
    /\ aux = [op |-> "provider", count |-> 0, lastGetURL |-> <<>>]

\* lines 638-641: the year is not a key of YearKeys
GetUserLeaguesNoYear(year) ==
    /\ year \notin DOMAIN YearKeys
    /\ aux' = [op |-> "leagues", year |-> year, asked |-> FALSE,
               count0 |-> aux.count, count |-> aux.count,
               lastGetURL |-> aux.lastGetURL,
               answer |-> [users |-> <<>>, err |-> NoErr],
               leagues |-> NilLeagues, err |-> ErrYear(year)]
    /\ UNCHANGED clientVars

\* lines 642-662: one GetFantasyContent call, the provider answering with
\* `answer`
GetUserLeaguesOfYear(year, answer) ==
    /\ year \in DOMAIN YearKeys
    /\ aux.count < MaxGets
    /\ aux' = [op |-> "leagues", year |-> year, asked |-> TRUE,
               count0 |-> aux.count, count |-> aux.count + 1,
               lastGetURL |-> UserLeaguesUrl(YearKeys[year]),
               answer |-> answer,
               leagues |-> UserLeaguesOf(answer).leagues,
               err |-> UserLeaguesOf(answer).err]
    /\ UNCHANGED clientVars

LeaguesNext ==
    \/ \E year \in Years : GetUserLeaguesNoYear(year)
    \/ \E year \in Years : \E answer \in UsersAnswers :
           GetUserLeaguesOfYear(year, answer)

LeaguesSpec == LeaguesInit /\ [][LeaguesNext]_vars

\* ------------------------------------------------------ reading the history
\* countingHTTPApiClient.Get of caller p has returned (response[p], err[p]).
HttpDone(p) ==
    /\ pc[p] \in {"x509", "x514", "x520", "c494", "done"}
    /\ tlog[p] # <<>>

LastOut(p) == tlog[p][Len(tlog[p])]
TransientFailure(o) == o.err # NoErr /\ Contains(o.err.msg, TransientSentinel)
DeniedFailure(o) == o.err # NoErr /\ Contains(o.err.msg, DeniedSentinel)
AllTransient(log) == \A i \in 1..Len(log) : TransientFailure(log[i])
\* The Transport fails with the transient sentinel on its first k calls and
\* succeeds afterwards: the calls made so far agree with that.
FailsFirst(log, k) ==
    \A i \in 1..Len(log) :
        IF i <= k THEN TransientFailure(log[i]) ELSE log[i].err = NoErr

\* ---------------------------------------------------------------------- C1
\* C1 as stated: when every Transport call fails with the transient
\* sentinel, one Get makes exactly 4 Transport calls, adds 4 to the attempt
\* counter and returns the error of the last call.
C1_RetryBoundFour ==
    \A p \in Procs :
        (HttpDone(p) /\ AllTransient(tlog[p])) =>
            /\ Len(tlog[p]) = 4
            /\ requestCount = rc0[p] + 4
            /\ err[p] = LastOut(p).err

\* C1 amended: when every Transport call fails with the transient sentinel,
\* one Get makes exactly 5 Transport calls (1 initial + 4 retries), adds 5 to
\* the attempt counter and returns the error of the last call, or
\* ErrAccessDenied when that error's message also holds the access-denied
\* sentinel.
C1_RetryBoundFive ==
    \A p \in Procs :
        (HttpDone(p) /\ AllTransient(tlog[p])) =>
            /\ Len(tlog[p]) = 5
            /\ requestCount = rc0[p] + 5
            /\ err[p] = IF DeniedFailure(LastOut(p))
                        THEN ErrAccessDenied
                        ELSE LastOut(p).err

C1_Witness ==
    \E p \in Procs :
        /\ HttpDone(p)
        /\ AllTransient(tlog[p])
        /\ LastOut(p).err = ErrTransient
        /\ err[p] = ErrTransient

\* ---------------------------------------------------------------------- C2
\* C2: for every N in 1..4, when the Transport fails with the transient
\* sentinel on calls 1..N-1 and succeeds on call N, Get reaches call N, makes
\* no call after it, returns that call's response with a nil error, and the
\* attempt counter has grown by N (RequestCount() = N on a fresh client).
C2_EarlySuccess ==
    \A p \in Procs :
        /\ (HttpDone(p) /\ AllTransient(tlog[p])) => Len(tlog[p]) >= 4
        /\ \A N \in 1..4 :
            ( /\ Len(tlog[p]) >= N
              /\ AllTransient(SubSeq(tlog[p], 1, N - 1))
              /\ tlog[p][N].err = NoErr ) =>
                /\ Len(tlog[p]) = N
                /\ HttpDone(p) =>
                    /\ err[p] = NoErr
                    /\ response[p] = tlog[p][N].resp
                    /\ response[p] # NoResp
                    /\ requestCount = rc0[p] + N

C2_Witness ==
    \E p \in Procs :
        /\ HttpDone(p)
        /\ started = 1
        /\ rc0[p] = 0
        /\ Len(tlog[p]) = 4
        /\ AllTransient(SubSeq(tlog[p], 1, 3))
        /\ tlog[p][4].err = NoErr
        /\ requestCount = 4

\* ---------------------------------------------------------------------- C3
\* C3: a Transport that fails with "consumer_key_unknown" on its first k
\* calls and succeeds afterwards makes Get return the successful response
\* with a nil error for every k <= 4, and a non-nil error for k = 5, without
\* a sixth call.
C3_RetryBudget ==
    \A p \in Procs :
        HttpDone(p) =>
            \A k \in 0..5 :
                FailsFirst(tlog[p], k) =>
                    IF k <= 4
                    THEN /\ Len(tlog[p]) = k + 1
                         /\ err[p] = NoErr
                         /\ response[p] = tlog[p][k + 1].resp
                    ELSE /\ Len(tlog[p]) = 5
                         /\ err[p] # NoErr

C3_Witness ==
    \E p \in Procs :
        /\ HttpDone(p)
        /\ FailsFirst(tlog[p], 5)
        /\ Len(tlog[p]) = 5
        /\ err[p] # NoErr

\* ---------------------------------------------------------------------- C4
\* C4: whenever the error of the last Transport call of a Get holds the
\* access-denied sentinel anywhere in its message, on the first attempt or
\* after retries, Get returns the package-level value ErrAccessDenied itself
\* and not the Transport's error.
C4_AccessDeniedNormalized ==
    \A p \in Procs :
        (HttpDone(p) /\ DeniedFailure(LastOut(p))) =>
            /\ err[p] = ErrAccessDenied
            /\ err[p] # LastOut(p).err

C4_Witness ==
    \E p \in Procs :
        /\ HttpDone(p)
        /\ Len(tlog[p]) >= 2
        /\ LastOut(p).err = ErrDenied
        /\ err[p] = ErrAccessDenied

\* ---------------------------------------------------------------------- C5
\* C5 as stated: no Transport call follows a Transport error whose message
\* holds the access-denied sentinel, also when the message holds the
\* transient sentinel too.
C5_DeniedNeverRetried ==
    \A p \in Procs :
        \A i \in 1..Len(tlog[p]) :
            DeniedFailure(tlog[p][i]) => i = Len(tlog[p])

\* C5 amended: no Transport call follows a Transport error whose message
\* holds the access-denied sentinel and not the transient sentinel.
C5_DeniedOnlyNeverRetried ==
    \A p \in Procs :
        \A i \in 1..Len(tlog[p]) :
            (DeniedFailure(tlog[p][i]) /\ ~TransientFailure(tlog[p][i])) =>
                i = Len(tlog[p])

C5_Witness ==
    \E p \in Procs :
        /\ HttpDone(p)
        /\ Len(tlog[p]) = 2
        /\ tlog[p][2].err = ErrDenied
        /\ transportCalls = 2

\* ---------------------------------------------------------------------- C6
\* C6: a first Transport error whose message holds neither sentinel is
\* returned by Get as the identical error value after exactly one Transport
\* call.
C6_OtherErrorVerbatim ==
    \A p \in Procs :
        ( /\ tlog[p] # <<>>
          /\ tlog[p][1].err # NoErr
          /\ ~TransientFailure(tlog[p][1])
          /\ ~DeniedFailure(tlog[p][1]) ) =>
            /\ Len(tlog[p]) = 1
            /\ HttpDone(p) =>
                /\ err[p] = tlog[p][1].err
                /\ requestCount = rc0[p] + 1

C6_Witness ==
    \E p \in Procs :
        /\ HttpDone(p)
        /\ tlog[p] = <<[resp |-> NoResp, err |-> ErrOther]>>
        /\ err[p] = ErrOther

\* ---------------------------------------------------------------------- C7
\* C7: RequestCount() is 0 on a new client, never decreases, and whenever
\* no Get is running (the calls being sequential) it equals the number of
\* Transport calls made so far.
C7_CounterCountsTransportCalls ==
    /\ requestCount = 0
    /\ [][requestCount' >= requestCount]_vars
    /\ [](AllIdle => requestCount = transportCalls)

C7_Witness ==
    /\ AllIdle
    /\ started = 2
    /\ transportCalls = 7
    /\ requestCount = 7

\* ----------------------------------------------------------- C8, C9, C10
\* cachedContentProvider.Get of caller p has returned res[p].
CachedDone(p) == cached /\ pc[p] = "done"
\* The store held, when the call began, a document for (url, bucket of the
\* time the call captured).
HeldAtStart(p) == StoreHas(store0[p], getKey(url[p], ctime[p]))
Entries(st) == {st[i] : i \in 1..Len(st)}

\* C8: on a cache hit cachedContentProvider.Get returns the stored document
\* with a nil error, calls neither the delegate nor the Transport, performs
\* no cache Set and leaves RequestCount() unchanged.
C8_CacheHit ==
    \A p \in Procs :
        (CachedDone(p) /\ HeldAtStart(p)) =>
            /\ res[p].content = StoreValue(store0[p], getKey(url[p], ctime[p])).content
            /\ res[p].err = NoErr
            /\ xcalls[p] = 0
            /\ tlog[p] = <<>>
            /\ setLog[p] = <<>>
            /\ Entries(store) = Entries(store0[p])
            /\ requestCount = rc0[p]

C8_Witness ==
    \E p \in Procs :
        /\ CachedDone(p)
        /\ HeldAtStart(p)
        /\ res[p].content # NoDoc
        /\ requestCount > 0

\* C9: on a cache miss whose delegate call succeeds, the delegate is called
\* exactly once, exactly one cache Set is made, of the delegate's document,
\* for the same url and with the timestamp captured before the delegate call
\* (not the time of the Set), and that document is returned with a nil error.
C9_CacheMissSuccess ==
    \A p \in Procs :
        (CachedDone(p) /\ ~HeldAtStart(p) /\ dres[p].err = NoErr) =>
            /\ xcalls[p] = 1
            /\ dres[p].content # NoDoc
            /\ Len(setLog[p]) = 1
            /\ setLog[p][1].url = url[p]
            /\ setLog[p][1].time = ctime[p]
            /\ setLog[p][1].content = dres[p].content
            /\ store[1] = [key |-> getKey(url[p], ctime[p]),
                           value |-> [type |-> "LRUCacheValue",
                                      content |-> dres[p].content]]
            /\ res[p] = [content |-> dres[p].content, err |-> NoErr]

\* The clock entered the next window between the lookup and the Set.
C9_Witness ==
    \E p \in Procs :
        /\ CachedDone(p)
        /\ ~HeldAtStart(p)
        /\ dres[p].err = NoErr
        /\ Len(setLog[p]) = 1
        /\ setLog[p][1].time = ctime[p]
        /\ GoDiv(setLog[p][1].at, DurationSeconds) # GoDiv(ctime[p], DurationSeconds)

\* C10: when the delegate returns an error on a cache miss,
\* cachedContentProvider.Get returns that identical error and performs no
\* cache insertion: afterwards the cache holds no entry for the url in the
\* window of the lookup, nor in the window by then current.
C10_CacheBypassOnError ==
    \A p \in Procs :
        (CachedDone(p) /\ ~HeldAtStart(p) /\ dres[p].err # NoErr) =>
            /\ res[p].err = dres[p].err
            /\ res[p].content = NoDoc
            /\ setLog[p] = <<>>
            /\ store = store0[p]
            /\ ~StoreHas(store, getKey(url[p], ctime[p]))
            /\ ~StoreHas(store, getKey(url[p], now))

C10_Witness ==
    \E p \in Procs :
        /\ CachedDone(p)
        /\ ~HeldAtStart(p)
        /\ dres[p].err = ErrParse
        /\ res[p].err = ErrParse
        /\ store # <<>>

\* --------------------------------------------------------------------- C11
KeyComputed == aux.op = "key"
TestGetKeyCase ==
    /\ KeyComputed
    /\ aux.cache = NewLRUCache(<<"c1">>, 3600000)
    /\ aux.url = <<"u">>
    /\ aux.time = 1408281677
Key391189 == <<"c1", ":", "u", ":", "3", "9", "1", "1", "8", "9">>
Key391190 == <<"c1", ":", "u", ":", "3", "9", "1", "1", "9", "0">>

C12_FloorKey ==
    KeyComputed =>
        aux.key = aux.cache.ClientID \o <<":">> \o aux.url \o <<":">>
                    \o FormatInt(aux.time \div aux.cache.DurationSeconds)

\* --------------------------------------------------------------------- C13
GetDone == aux.op = "get"
GetKeyUsed == getKeyOf(aux.get.cache, aux.get.url, aux.get.time)
\* The Get just made asks, through the same instance and for the same url,
\* for what the latest Set stored, and the store was not written since.
GetOfLastSet ==
    /\ GetDone
    /\ aux.lastSet # NoCall
    /\ aux.intact
    /\ aux.get.cache = aux.lastSet.cache
    /\ aux.get.url = aux.lastSet.url

\* C13: after Set(url, time, content), with no eviction or overwrite,
\* Get(url, t) returns that content for every t from time up to
\* time + Duration.
C13_AvailableForDuration ==
    /\ GetOfLastSet
    /\ aux.lastSet.time <= aux.get.time
    /\ aux.get.time <= aux.lastSet.time + aux.get.cache.DurationSeconds
    => aux.get.ok /\ aux.get.content = aux.lastSet.content

\* --------------------------------------------------------------------- C14
\* C14: for two LRUCache instances with different client IDs over one store,
\* and any URLs and times, content stored with Set through one instance is
\* never returned by Get through the other.
C14_ClientNamespacing ==
    GetDone /\ aux.get.ok => aux.get.content = DocOf(aux.get.cache)

\* --------------------------------------------------------------------- C15
WrongTypeHeld ==
    /\ GetDone
    /\ StoreHas(aux.get.before, GetKeyUsed)
    /\ StoreValue(aux.get.before, GetKeyUsed).type # "LRUCacheValue"

\* C15: when the store holds, under the key for (url, time), a value that is
\* not an *LRUCacheValue, LRUCache.Get returns (nil, false) and the store
\* holds the same entries as before.
C15_TypeMismatchIsMiss ==
    WrongTypeHeld =>
        /\ ~aux.get.ok
        /\ aux.get.content = NoDoc
        /\ Entries(aux.st) = Entries(aux.get.before)

C15_Witness ==
    /\ WrongTypeHeld
    /\ StoreValue(aux.get.before, GetKeyUsed) = mockedValue
    /\ ~aux.get.ok

\* --------------------------------------------------------------------- C16
SameBucket ==
    GoDiv(aux.get.time, aux.get.cache.DurationSeconds)
        = GoDiv(aux.lastSet.time, aux.get.cache.DurationSeconds)

\* C16: after Set(url, t, c), with no eviction since, Get(url, t') for any t'
\* in the time bucket of t returns (c, true), c being the document given to
\* Set itself; a Get made before any Set returns (nil, false).
C16_RoundTripByReference ==
    /\ GetOfLastSet /\ SameBucket =>
           aux.get.ok /\ aux.get.content = aux.lastSet.content
    /\ GetDone /\ aux.lastSet = NoCall =>
           ~aux.get.ok /\ aux.get.content = NoDoc

C16_Witness ==
    /\ GetOfLastSet
    /\ SameBucket
    /\ aux.get.time # aux.lastSet.time
    /\ aux.get.ok
    /\ aux.get.content = DocOf(aux.get.cache)

\* ------------------------------------------------------- C17, C18, C19, C20
\* xmlContentProvider.Get of caller p has returned dres[p]; err[p] is what
\* its call of countingHTTPApiClient.Get returned.
XmlDone(p) ==
    /\ pc[p] \in {"c494", "done"}
    /\ xcalls[p] > 0
Occurrences(log, what) == Cardinality({i \in 1..Len(log) : log[i] = what})

\* C17: when countingHTTPApiClient.Get returns an error,
\* xmlContentProvider.Get returns (nil, that same error) and has neither
\* read the body, nor parsed, nor run fixContent.
C17_TransportErrorPropagated ==
    \A p \in Procs :
        XmlDone(p) /\ err[p] # NoErr =>
            /\ dres[p] = [content |-> NoDoc, err |-> err[p]]
            /\ xlog[p] = <<>>

C17_Witness ==
    /\ XmlDone(Main)
    /\ err[Main] = ErrAccessDenied
    /\ dres[Main].err = ErrAccessDenied
    /\ Len(tlog[Main]) = 1

\* C18: whenever countingHTTPApiClient.Get returns a response without error,
\* xmlContentProvider.Get has closed the response body exactly once when it
\* returns, after a successful decode, a failed read and a failed parse
\* alike, and closing is the last thing it does.
C18_BodyClosedOnce ==
    \A p \in Procs :
        /\ XmlDone(p) /\ err[p] = NoErr =>
               /\ xclosed[p] = 1
               /\ Occurrences(xlog[p], "close") = 1
               /\ xlog[p][Len(xlog[p])] = "close"
        /\ pc[p] \in {"x514", "x520"} => xclosed[p] = 0

C18_Witness ==
    /\ XmlDone(Main)
    /\ err[Main] = NoErr
    /\ dres[Main].err = ErrRead
    /\ xclosed[Main] = 1

\* C19: every xmlContentProvider.Get returns either a document and no error
\* or no document and an error; a failed read returns the reader's error and
\* nothing was parsed; a failed parse returns the parser's error and no
\* document; the two errors differ.
C19_ExclusiveOutcome ==
    \A p \in Procs :
        XmlDone(p) =>
            /\ \/ dres[p].content # NoDoc /\ dres[p].err = NoErr
               \/ dres[p].content = NoDoc /\ dres[p].err # NoErr
            /\ err[p] = NoErr /\ dres[p].err = ErrRead =>
                   xlog[p] = <<"read", "close">>
            /\ err[p] = NoErr /\ dres[p].err = ErrParse =>
                   xlog[p] = <<"read", "parse", "close">>
            /\ dres[p].err = NoErr =>
                   xlog[p] = <<"read", "parse", "fix", "close">>
            /\ ErrRead # ErrParse

C19_Witness ==
    /\ XmlDone(Main)
    /\ err[Main] = NoErr
    /\ dres[Main] = [content |-> NoDoc, err |-> ErrParse]
    /\ xlog[Main] = <<"read", "parse", "close">>

\* C20: one xmlContentProvider.Get makes one call of
\* countingHTTPApiClient.Get and raises RequestCount() by the number of
\* Transport calls of that call, whether reading and parsing succeed or not.
C20_DecodingAddsNoCalls ==
    \A p \in Procs :
        XmlDone(p) =>
            /\ xcalls[p] = 1
            /\ Len(tlog[p]) >= 1
            /\ requestCount = rc0[p] + Len(tlog[p])

C20_Witness ==
    /\ XmlDone(Main)
    /\ dres[Main].err = NoErr
    /\ Len(tlog[Main]) = 2
    /\ requestCount = rc0[Main] + 2

\* -------------------------------------------------- C21, C22, C23, C24, C25
Range(s) == {s[i] : i \in 1..Len(s)}
\* The teams of a matchup: all of them, or those fixContent indexes.
TeamsOf(m, all) ==
    IF all \/ Len(m.Teams) < 2 THEN Range(m.Teams) ELSE {m.Teams[1], m.Teams[2]}
RECURSIVE TeamsUnder(_, _)
\* Team t and the teams of its matchups, at every depth.
TeamsUnder(t, all) ==
    {t} \cup UNION {TeamsUnder(u, all) :
                        u \in UNION {TeamsOf(m, all) : m \in Range(t.Matchups)}}
ContentTeams(c, all) ==
    UNION {TeamsUnder(t, all) :
              t \in {c.Team} \cup Range(c.League.Teams) \cup Range(c.League.Standings)
                      \cup UNION {TeamsOf(m, all) :
                                     m \in Range(c.League.Scoreboard.Matchups)}}
TeamPointsOf(t) ==
    {t.TeamPoints, t.TeamProjectedPoints}
        \cup {pl.PlayerPoints : pl \in Range(t.Roster.Players) \cup Range(t.Players)}
ContentPoints(c, all) ==
    UNION {TeamPointsOf(t) : t \in ContentTeams(c, all)}
        \cup {pl.PlayerPoints : pl \in Range(c.League.Players)}
ContentStandings(c, all) == {t.TeamStandings : t \in ContentTeams(c, all)}

PointsRepaired(p) ==
    /\ p.Total = IF ParseFloat(p.TotalStr).ok THEN ParseFloat(p.TotalStr).val ELSE Zero
    /\ p.TotalStr = <<"1", "2", ".", "5", "0">> => p.Total = <<125, 1>>
    /\ p.TotalStr = <<"-", "0", ".", "5">> => p.Total = <<-5, 1>>
    /\ p.TotalStr \in {<<>>, <<"n", "/", "a">>, <<"1", ".", "2", ".">>} => p.Total = Zero
RankRepaired(t) ==
    /\ t.Rank = IF ParseInt(t.RankStr).ok THEN ParseInt(t.RankStr).val ELSE 0
    /\ t.RankStr = <<"1", "2">> => t.Rank = 12
    /\ t.RankStr = <<"-", "3">> => t.Rank = -3
    /\ t.RankStr \in {<<>>, <<"x">>, <<"7", "t", "h">>} => t.Rank = 0

Fixed == aux.op = "fixed"
\* Every matchup fixContent comes to has two teams at least.
Paired == aux.n >= 2 /\ aux.m >= 2

\* C21: for a freshly decoded document, after fixContent every Points it
\* repaired has Total equal to the number TotalStr parses to, and 0 when
\* TotalStr is blank or does not parse; every TeamStandings it repaired has
\* Rank equal to the integer RankStr parses to, or 0; a blank or unparseable
\* text does not make fixContent fail.
C21_RepairValues ==
    /\ Fixed /\ Paired => aux.r1.ok
    /\ Fixed /\ ~aux.held /\ aux.r1.ok =>
           /\ \A p \in ContentPoints(aux.r1.v, FALSE) : PointsRepaired(p)
           /\ \A t \in ContentStandings(aux.r1.v, FALSE) : RankRepaired(t)

C21_Witness ==
    /\ Fixed /\ ~aux.held /\ aux.r1.ok
    /\ aux.r1.v.Team.TeamPoints.TotalStr = <<"1", "2", ".", "5", "0">>
    /\ aux.r1.v.Team.TeamPoints.Total = <<125, 1>>
    /\ aux.r1.v.Team.TeamStandings.RankStr = <<"7", "t", "h">>
    /\ aux.r1.v.Team.TeamStandings.Rank = 0

\* C22: for any document d on which fixContent returns, fixContent of
\* fixContent(d) returns too and leaves every field, derived Total and Rank
\* included, as fixContent(d) left it.
C22_Idempotent ==
    aux.op = "refixed" => aux.r2.ok /\ aux.r2.v = aux.r1.v

C22_Witness ==
    /\ aux.op = "refixed"
    /\ aux.held
    /\ aux.r1.v # aux.c0
    /\ aux.r1.v.Team.TeamStandings.Rank = 7
    /\ aux.r2.v = aux.r1.v

RawPoints(p) == [p EXCEPT !.Total = Zero]
RawPlayers(ps) == [i \in 1..Len(ps) |-> [ps[i] EXCEPT !.PlayerPoints = RawPoints(@)]]
RECURSIVE RawTeam(_)
RawMatchups(ms) ==
    [i \in 1..Len(ms) |->
        [ms[i] EXCEPT !.Teams = [j \in 1..Len(ms[i].Teams) |-> RawTeam(ms[i].Teams[j])]]]
\* Team t with every derived field, at every depth, set to zero.
RawTeam(t) ==
    [t EXCEPT !.TeamPoints = RawPoints(@),
              !.TeamProjectedPoints = RawPoints(@),
              !.Roster.Players = RawPlayers(@),
              !.Players = RawPlayers(@),
              !.Matchups = RawMatchups(@),
              !.TeamStandings.Rank = 0]
RawTeams(ts) == [i \in 1..Len(ts) |-> RawTeam(ts[i])]
RawContent(c) ==
    [c EXCEPT !.Team = RawTeam(@),
              !.League.Teams = RawTeams(@),
              !.League.Standings = RawTeams(@),
              !.League.Players = RawPlayers(@),
              !.League.Scoreboard.Matchups = RawMatchups(@)]

\* C23: fixContent returns the pointer it was given and writes only derived
\* Total and Rank fields: every raw text and every other field, and the
\* number of teams, players and matchups, are as before, also in what a
\* traversal cut short leaves behind.
C23_RepairFrame ==
    /\ \A d \in 1..MaxGets : fixContent(d) = d
    /\ aux.op \in {"fixed", "refixed"} => RawContent(aux.r1.v) = RawContent(aux.c0)

C23_Witness ==
    /\ Fixed
    /\ aux.r1.ok
    /\ aux.r1.v # aux.c0
    /\ aux.r1.v.League.Players[1].PlayerPoints.Total = <<8, 0>>
    /\ RawContent(aux.r1.v) = RawContent(aux.c0)

\* C24: after fixContent on a freshly decoded document, every team reachable
\* from the root - the top-level team, the league teams, the standings teams
\* and every team of every matchup, whatever their number, of the league
\* scoreboard and of any team's own matchups at every depth - has its points
\* and rank repaired, and so has every league player.
C24_EveryTeamRepaired ==
    Fixed /\ ~aux.held =>
        /\ aux.r1.ok
        /\ \A p \in ContentPoints(aux.r1.v, TRUE) : PointsRepaired(p)
        /\ \A t \in ContentStandings(aux.r1.v, TRUE) : RankRepaired(t)

\* C25: for every document that parses, matchups of zero or one team
\* included, fixContent completes without panic.
C25_RepairNeverPanics == Fixed => aux.r1.ok

\* --------------------------------------------------------------------- C26
\* C26: when two or more callers run Get concurrently on one Client no
\* increment is lost: once all calls have completed RequestCount() equals
\* the number of Transport calls made by all of them.
C26_NoLostIncrement == AllIdle => requestCount = transportCalls

\* --------------------------------------------------------------------- C27
Other(p) == CHOOSE q \in Procs : q # p
\* Caller p leaves line 494-497 with a result of the delegate that carries
\* no error: the cache serves that document for (url, bucket of currentTime).
StoresOnSuccess(p) ==
    pc[p] = "c494" /\ pc'[p] = "done" /\ dres[p].err = NoErr =>
        LRUCacheGet(store', url[p], ctime[p]) = [content |-> dres[p].content, ok |-> TRUE]
\* Caller p looks up while the store holds a document for (url, bucket of
\* now): it returns that document at once.
HitWhileHeld(p) ==
    pc[p] = "c490" /\ pc'[p] # "c490" /\ LRUCacheGet(store, url[p], now).ok =>
        /\ pc'[p] = "done"
        /\ hit'[p]
        /\ res'[p] = [content |-> LRUCacheGet(store, url[p], now).content, err |-> NoErr]
        /\ xcalls'[p] = 0
        /\ transportCalls' = transportCalls
        /\ requestCount' = requestCount
\* Every document in the store is one a delegate call returned.
StoredWereDecoded ==
    \A e \in Entries(store) :
        e.value.type = "LRUCacheValue" /\ e.value.content \in 1..nextDoc

\* C27: with concurrent cachedContentProvider.Get calls for one URL, each may
\* call the delegate; a call that completes successfully leaves its
\* document in the cache under the bucket of its start, and every Get that
\* looks up in that bucket while the entry is held is a hit, calls no
\* delegate and returns a document that a delegate call returned.
C27_EventualCacheConsistency ==
    /\ []StoredWereDecoded
    /\ [][\A p \in Procs : StoresOnSuccess(p) /\ HitWhileHeld(p)]_vars

\* Both goroutines have called, the first went to the delegate and the
\* second was served the document the first one stored.
C27_Witness ==
    /\ cached
    /\ started = 2
    /\ pc = [p \in Procs |-> "done"]
    /\ xcalls[Main] = 1 /\ res[Main].err = NoErr
    /\ hit[Other(Main)] /\ xcalls[Other(Main)] = 0
    /\ res[Other(Main)] = res[Main]

\* --------------------------------------------------------------------- C28
Returned(p) == pc[p] = "done"

\* C28: GetFantasyContent(url) makes one call of the provider's Get with
\* that url and returns what it returned; an error of the retrying client,
\* ErrAccessDenied included, reaches the caller of GetFantasyContent as that
\* same error, with no document, on the cached and on the uncached chain.
C28_PassThrough ==
    \A p \in Procs :
        Returned(p) =>
            /\ xcalls[p] = IF cached /\ hit[p] THEN 0 ELSE 1
            /\ xcalls[p] = 1 => res[p] = dres[p]
            /\ xcalls[p] = 1 /\ err[p] # NoErr =>
                   res[p] = [content |-> NoDoc, err |-> err[p]]
            /\ \A i \in 1..Len(setLog[p]) : setLog[p][i].url = url[p]

C28_Witness ==
    /\ cached
    /\ Returned(Main)
    /\ ~hit[Main]
    /\ LastOut(Main).err = ErrBoth
    /\ res[Main] = [content |-> NoDoc, err |-> ErrAccessDenied]

\* --------------------------------------------------------------------- C29
\* C29: every LRUCacheValue reports Size() = 1 whatever document it wraps;
\* in the store of capacity N each cached document counts for one unit and
\* at most N documents are held.
C29_UnitSize ==
    /\ \A e \in Entries(store) :
           /\ e.value.type = "LRUCacheValue"
           /\ Size(e.value) = 1
           /\ Cost(e.value) = Size(e.value)
    /\ StoreSize(store) = Len(store)
    /\ Len(store) <= Capacity

\* A Set into the full store has evicted an entry.
C29_Witness ==
    /\ cached
    /\ Returned(Main)
    /\ setLog[Main] # <<>>
    /\ Len(store0[Main]) = Capacity
    /\ Len(store) = Capacity
    /\ ~StoreHas(store0[Main], store[1].key)
    /\ store[1].value.content = nextDoc
    /\ nextDoc > 1

\* --------------------------------------------------------------------- C30
WeeksDone == aux.op = "weeks"
WeekParameter == SubSeq(aux.requests[1], 5, Len(aux.requests[1]))
\* The matchups of week w, in the order of the response.
OfWeek(matchups, w) == SelectSeq(matchups, LAMBDA m : m.Week = w)

\* C30: on success the map holds every matchup of the response's scoreboard
\* once, under its own Week, in response order within a week, and no key
\* for a week without matchups; one request is made, whose week parameter
\* lists startWeek, startWeek + 1, ..., endWeek separated by commas, and
\* startWeek alone when startWeek = endWeek; on a provider error that error
\* is returned and no map.
C30_PartitionByWeek ==
    WeeksDone =>
        /\ Len(aux.requests) = 1
        /\ SubSeq(aux.requests[1], 1, 4)
               = <<YahooBaseURL, "/league/", LeagueKey, "/scoreboard;week=">>
        /\ aux.startWeek <= aux.endWeek =>
               /\ Len(WeekParameter) = 2 * (aux.endWeek - aux.startWeek) + 1
               /\ \A k \in 0..(aux.endWeek - aux.startWeek) :
                      /\ WeekParameter[2 * k + 1] = Digit(aux.startWeek + k)
                      /\ k > 0 => WeekParameter[2 * k] = ","
        /\ aux.startWeek = 1 /\ aux.endWeek = 3 =>
               WeekParameter = <<"1", ",", "2", ",", "3">>
        /\ aux.startWeek = 2 /\ aux.endWeek = 2 => WeekParameter = <<"2">>
        /\ aux.answer.err # NoErr =>
               aux.all = NilMap /\ aux.err = aux.answer.err
        /\ aux.answer.err = NoErr =>
               /\ aux.err = NoErr
               /\ ~aux.all.nil
               /\ DOMAIN aux.all.m = {m.Week : m \in Range(aux.answer.matchups)}
               /\ \A w \in DOMAIN aux.all.m :
                      aux.all.m[w] = OfWeek(aux.answer.matchups, w)

C30_Witness ==
    /\ WeeksDone
    /\ aux.startWeek = 1 /\ aux.endWeek = 3
    /\ aux.err = NoErr
    /\ DOMAIN aux.all.m = {1, 4}
    /\ Len(aux.all.m[1]) = 2
    /\ aux.all.m[1][1].Teams = <<"a">>
    /\ aux.all.m[1][2].Teams = <<"c">>
    /\ aux.all.m[4][1].Teams = <<"b">>


\* --------------------------------------------------------------------- C31
LeaguesDone == aux.op = "leagues"
\* C31: for a year that is not a key of YearKeys GetUserLeagues returns an
\* error and the provider is not called, its request count unchanged; for a
\* supported year the provider is called exactly once, with the url of the
\* year's game key, and the call returns the provider's error if there is
\* one, an error when the response has no users, an empty list and no error
\* when the first user has no games or the first game has no leagues, and
\* the first game's leagues otherwise.
C31_UserLeagues ==
    LeaguesDone =>
        /\ aux.year \notin DOMAIN YearKeys =>
               /\ aux.err # NoErr
               /\ aux.leagues = NilLeagues
               /\ aux.count = aux.count0
               /\ ~aux.asked
        /\ aux.year \in DOMAIN YearKeys =>
               /\ aux.count = aux.count0 + 1
               /\ aux.lastGetURL[3] = YearKeys[aux.year]
               /\ aux.answer.err # NoErr =>
                      aux.err = aux.answer.err /\ aux.leagues = NilLeagues
               /\ aux.answer.err = NoErr /\ aux.answer.users = <<>> =>
                      aux.err # NoErr /\ aux.leagues = NilLeagues
               /\ aux.answer.err = NoErr /\ aux.answer.users # <<>> =>
                      /\ aux.err = NoErr
                      /\ ~aux.leagues.nil
                      /\ aux.answer.users[1].Games = <<>> =>
                             aux.leagues.s = <<>>
                      /\ aux.answer.users[1].Games # <<>> =>
                             aux.leagues.s = aux.answer.users[1].Games[1].Leagues.s
        /\ aux.year = "2013" => aux.lastGetURL[3] = "314"

C31_Witness ==
    /\ LeaguesDone
    /\ aux.year = "2010"
    /\ aux.count = 2
    /\ Len(aux.answer.users) = 2
    /\ Len(aux.answer.users[2].Games) = 1
    /\ Len(aux.answer.users[1].Games) = 2
    /\ aux.leagues.s = <<[LeagueKey |-> "l1"]>>
    /\ Len(aux.answer.users[1].Games[2].Leagues.s) = 2


\* --------------------------------------------------------------------- C32
\* C32: within one countingHTTPApiClient.Get, no Transport call follows a
\* Transport call that succeeds or that fails with an error lacking the
\* transient sentinel, also after one or more transient failures; Get
\* returns that call's response and its error, ErrAccessDenied in its place
\* when the error's message holds the access-denied sentinel.
C32_StopsAtFirstNonTransient ==
    \A p \in Procs :
        /\ \A i \in 1..Len(tlog[p]) :
               ~TransientFailure(tlog[p][i]) => i = Len(tlog[p])
        /\ (HttpDone(p) /\ ~TransientFailure(LastOut(p))) =>
               /\ response[p] = LastOut(p).resp
               /\ err[p] = IF DeniedFailure(LastOut(p))
                           THEN ErrAccessDenied
                           ELSE LastOut(p).err

C32_Witness ==
    \E p \in Procs :
        /\ HttpDone(p)
        /\ Len(tlog[p]) = 3
        /\ AllTransient(SubSeq(tlog[p], 1, 2))
        /\ LastOut(p).err = ErrOther
        /\ err[p] = ErrOther
        /\ transportCalls = 3


\* --------------------------------------------------------------------- C33
HistoryKept == aux.op = "history"
\* The calls that have returned, oldest first.
Past == aux.past
\* The epoch-aligned window a time lies in.
WindowOf(t) == t \div DurationSeconds
\* Call i went to the delegate and the delegate returned a document.
Fetched(i) ==
    /\ Past[i].delegated = 1
    /\ Past[i].res.err = NoErr
    /\ Past[i].res.content # NoDoc

SameUrlAndWindow(i, j) ==
    /\ Past[i].url = Past[j].url
    /\ WindowOf(Past[i].time) = WindowOf(Past[j].time)
\* Call j is the first call after call i for the url of call i.
NextFor(i, j) ==
    /\ i < j
    /\ Past[j].url = Past[i].url
    /\ \A m \in (i + 1)..(j - 1) : Past[m].url # Past[i].url
\* Every call after call j up to call k is for the url of call j.
OnlyFor(j, k) ==
    /\ j < k
    /\ \A m \in (j + 1)..k : Past[m].url = Past[j].url

\* C34: after a cachedContentProvider.Get for a url has failed, the next Get
\* for that url in the same window calls the delegate again; when that call
\* succeeds it returns the delegate's document, and a later Get for the url
\* in the same window, no other url asked for in between, calls no delegate
\* and returns that document.
C34_FailuresDoNotPoison ==
    HistoryKept =>
        \A i \in 1..Len(Past) : \A j \in 1..Len(Past) :
            ( /\ Past[i].res.err # NoErr
              /\ NextFor(i, j)
              /\ SameUrlAndWindow(i, j) ) =>
                /\ Past[j].delegated = 1
                /\ Past[j].res.err = NoErr =>
                       /\ Past[j].res.content # NoDoc
                       /\ \A k \in 1..Len(Past) :
                              (OnlyFor(j, k) /\ SameUrlAndWindow(j, k)) =>
                                  /\ Past[k].delegated = 0
                                  /\ Past[k].res = Past[j].res

\* A call fails, the next one for the url fetches a document, the third is
\* served that document, all in one window.
C34_Witness ==
    /\ HistoryKept
    /\ Len(Past) = 3
    /\ \A j \in 1..3 : Past[j].url = <<"v">> /\ WindowOf(Past[j].time) = 0
    /\ Past[1].res.err = ErrOther /\ Past[1].delegated = 1
    /\ Past[2].res.err = NoErr /\ Past[2].delegated = 1
    /\ Past[2].res.content # NoDoc
    /\ Past[3].delegated = 0
    /\ Past[3].res = Past[2].res


\* --------------------------------------------------------------------- C35
Keyed == aux.op = "keyed"
\* C35: for every Duration > 0 given to NewLRUCache, durations under one
\* second included, DurationSeconds is at least 1, and LRUCache.Get and
\* LRUCache.Set compute their key without a division by zero.
C35_KeyDefinedForPositiveDuration ==
    Keyed /\ aux.cache.Duration > 0 =>
        /\ aux.cache.DurationSeconds >= 1
        /\ ~aux.panic
        /\ aux.key # <<>>

====
